---- MODULE Spec2Model ----
(***************************************************************************)
(* MeetMind smoke tests: the Playwright UI walk of test-ui.py              *)
(* (test_meetmind) and the generate-topics API check of test_api.py.       *)
(***************************************************************************)
EXTENDS Integers, Sequences, FiniteSets, TLC

VARIABLES
    pc,        \* index into Prog of the statement test_meetmind executes next
    status,    \* "running" | "raised" | "returned"
    exc,       \* the exception that ended the run, or NoExc
    result,    \* the value returned by test_meetmind ("none" until it returns)
    sess,      \* the Playwright driver, the browser and its two contexts
    pages,     \* per page: current URL and number of console listeners
    title,     \* the value of page.title() read at line 27
    files,     \* names of the files in screenshots/
    shots,     \* the screenshots written, in capture order
    out,       \* the lines printed, in order
    log,       \* the Playwright calls made on the pages and contexts, in order
    errors,    \* the list the console listener appends to (line 112)
    seen,      \* console messages delivered so far
    critical,  \* critical_errors (line 118)
    listing,   \* the file names printed by the final summary (lines 132-134)
    apc,       \* test_api.py: position of the script
    resp,      \* test_api.py: the response of requests.post
    aout,      \* test_api.py: the lines printed
    aexc,      \* test_api.py: the exception that ended the script, or "none"
    cin,       \* classification harness: the captured message texts
    cout,      \* classification harness: critical_errors
    cdone      \* classification harness: the comprehension has run

uiVars == <<pc, status, exc, result, sess, pages, title, files, shots, out, log,
            errors, seen, critical, listing>>
apiVars == <<apc, resp, aout, aexc>>
clsVars == <<cin, cout, cdone>>
vars == <<uiVars, apiVars, clsVars>>

(***************************************************************************)
(* Bounds of the model.                                                    *)
(***************************************************************************)
MaxCount == 2     \* largest number of elements a locator matches
MaxMsgs == 2      \* console messages delivered during one run
MaxChunks == 2    \* pieces a console message text is put together from
MaxBody == 3      \* characters of an HTTP response body

(***************************************************************************)
(* Strings as sequences of characters.                                     *)
(***************************************************************************)
Min(a, b) == IF a < b THEN a ELSE b

\* Python's `sub in s`
Contains(s, sub) ==
    \E i \in 1..(Len(s) + 1) :
        /\ i + Len(sub) - 1 <= Len(s)
        /\ \A k \in 1..Len(sub) : s[i + k - 1] = sub[k]

\* str.lower() on one character (ASCII letters)
LowerChar(c) ==
    CASE c = "A" -> "a" [] c = "B" -> "b" [] c = "C" -> "c" [] c = "D" -> "d"
      [] c = "E" -> "e" [] c = "F" -> "f" [] c = "G" -> "g" [] c = "H" -> "h"
      [] c = "I" -> "i" [] c = "J" -> "j" [] c = "K" -> "k" [] c = "L" -> "l"
      [] c = "M" -> "m" [] c = "N" -> "n" [] c = "O" -> "o" [] c = "P" -> "p"
      [] c = "Q" -> "q" [] c = "R" -> "r" [] c = "S" -> "s" [] c = "T" -> "t"
      [] c = "U" -> "u" [] c = "V" -> "v" [] c = "W" -> "w" [] c = "X" -> "x"
      [] c = "Y" -> "y" [] c = "Z" -> "z" [] OTHER -> c

\* str.lower()
Lower(s) == [i \in 1..Len(s) |-> LowerChar(s[i])]

ErrorMarker == <<"E", "r", "r", "o", "r">>
FaviconMarker == <<"f", "a", "v", "i", "c", "o", "n">>
MeetMindMarker == <<"M", "e", "e", "t", "M", "i", "n", "d">>

\* s[:n]
Truncate(s, n) == SubSeq(s, 1, Min(Len(s), n))

(***************************************************************************)
(* Console-error classification (line 118).                                *)
(***************************************************************************)
IsCriticalNoLower(e) == Contains(e, ErrorMarker) /\ ~Contains(e, FaviconMarker)

\* 'Error' in e and 'favicon' not in e.lower()
IsCritical(e) == Contains(e, ErrorMarker) /\ ~Contains(Lower(e), FaviconMarker)

\* [e for e in errors if ...]
CriticalErrors(errs) == SelectSeq(errs, IsCritical)

\* the console listener of line 113
OnConsoleMsg(errs, msg) == IF msg.type = "error" THEN Append(errs, msg.text) ELSE errs

(***************************************************************************)
(* Screenshot file names and their order under sorted().                   *)
(***************************************************************************)
\* the code points of a file name
FileOrd(f) ==
    CASE f = "01-home-record.png" ->
           <<48, 49, 45, 104, 111, 109, 101, 45, 114, 101, 99, 111, 114, 100, 46, 112, 110, 103>>
      [] f = "02-home-review.png" ->
           <<48, 50, 45, 104, 111, 109, 101, 45, 114, 101, 118, 105, 101, 119, 46, 112, 110, 103>>
      [] f = "03-parent.png" ->
           <<48, 51, 45, 112, 97, 114, 101, 110, 116, 46, 112, 110, 103>>
      [] f = "03-parent-confusion.png" ->
           <<48, 51, 45, 112, 97, 114, 101, 110, 116, 45, 99, 111, 110, 102, 117, 115, 105, 111, 110, 46, 112, 110, 103>>
      [] f = "04-teacher.png" ->
           <<48, 52, 45, 116, 101, 97, 99, 104, 101, 114, 46, 112, 110, 103>>
      [] f = "04-teacher-students.png" ->
           <<48, 52, 45, 116, 101, 97, 99, 104, 101, 114, 45, 115, 116, 117, 100, 101, 110, 116, 115, 46, 112, 110, 103>>
      [] f = "05-mobile-home.png" ->
           <<48, 53, 45, 109, 111, 98, 105, 108, 101, 45, 104, 111, 109, 101, 46, 112, 110, 103>>
      [] f = "05-mobile-parent.png" ->
           <<48, 53, 45, 109, 111, 98, 105, 108, 101, 45, 112, 97, 114, 101, 110, 116, 46, 112, 110, 103>>

PngSuffix == <<46, 112, 110, 103>>

\* str.endswith
EndsWith(s, suf) ==
    /\ Len(suf) <= Len(s)
    /\ \A k \in 1..Len(suf) : s[Len(s) - Len(suf) + k] = suf[k]

\* Python's str < str: the first differing code point decides, a proper prefix is smaller
LexLess(a, b) ==
    \E i \in 1..(Len(a) + 1) :
        /\ \A k \in 1..(i - 1) : k <= Len(b) /\ a[k] = b[k]
        /\ \/ i = Len(a) + 1 /\ Len(b) > Len(a)
           \/ i <= Len(a) /\ i <= Len(b) /\ a[i] < b[i]

FileLess(f, g) == LexLess(FileOrd(f), FileOrd(g))

RECURSIVE SortedFiles(_)
\* sorted(S)
SortedFiles(S) ==
    IF S = {} THEN <<>>
    ELSE LET m == CHOOSE x \in S : \A y \in S \ {x} : FileLess(x, y)
         IN <<m>> \o SortedFiles(S \ {m})

(***************************************************************************)
(* The statements of test_meetmind, in program order.  A statement names   *)
(* its source line and the step it belongs to: 1 home, 2 review-tab        *)
(* switch, 3 parent page, 4 parent tab switch, 5 teacher page, 6 teacher   *)
(* view switch, 7 mobile home, 8 mobile parent page, 9 console check       *)
(* (0: set-up and tear-down).  Sec1..Sec6 are the sections the script      *)
(* numbers 1 to 6 in its progress lines.                                   *)
(***************************************************************************)
Ins(op, line, step, page, arg, ms, skip) ==
    [op |-> op, line |-> line, step |-> step, page |-> page, arg |-> arg,
     ms |-> ms, skip |-> skip]

Setup ==
    << Ins("enter", 10, 0, "none", "sync_playwright", 0, 0),
       Ins("launch", 11, 0, "none", "chromium", 0, 0),
       Ins("new_context", 12, 0, "desktop", "1280x800", 0, 0),
       Ins("new_page", 13, 0, "desktop", "", 0, 0),
       Ins("makedirs", 16, 0, "none", "screenshots", 0, 0),
       Ins("print", 18, 0, "none", "info", 0, 0) >>

Sec1 ==
    << Ins("print", 21, 1, "none", "info", 0, 0),
       Ins("goto", 22, 1, "desktop", "/", 0, 0),
       Ins("wait_idle", 23, 1, "desktop", "networkidle", 0, 0),
       Ins("screenshot", 24, 1, "desktop", "01-home-record.png", 0, 0),
       Ins("title_assert", 27, 1, "desktop", "text=MeetMind", 0, 0),
       Ins("print", 29, 1, "none", "ok", 0, 0),
       Ins("count_if", 33, 1, "desktop", "record_btn", 0, 1),
       Ins("print", 34, 1, "none", "ok", 0, 0) >>

Sec2NoWarn ==
    << Ins("print", 37, 2, "none", "info", 0, 0),
       Ins("count_if", 39, 2, "desktop", "review_tab", 0, 4),
       Ins("click", 40, 2, "desktop", "review_tab", 0, 0),
       Ins("wait_timeout", 41, 2, "desktop", "", 500, 0),
       Ins("screenshot", 42, 2, "desktop", "02-home-review.png", 0, 0),
       Ins("print", 43, 2, "none", "ok", 0, 0) >>

Sec2 ==
    << Ins("print", 37, 2, "none", "info", 0, 0),
       Ins("count_if", 39, 2, "desktop", "review_tab", 0, 5),
       Ins("click", 40, 2, "desktop", "review_tab", 0, 0),
       Ins("wait_timeout", 41, 2, "desktop", "", 500, 0),
       Ins("screenshot", 42, 2, "desktop", "02-home-review.png", 0, 0),
       Ins("print", 43, 2, "none", "ok", 0, 0),
       Ins("else", 44, 2, "none", "", 0, 1),
       Ins("print", 45, 2, "none", "warn", 0, 0) >>

Sec3NoSettle ==
    << Ins("print", 48, 3, "none", "info", 0, 0),
       Ins("goto", 49, 3, "desktop", "/parent", 0, 0),
       Ins("wait_idle", 50, 3, "desktop", "networkidle", 0, 0),
       Ins("wait_timeout", 51, 3, "desktop", "", 1000, 0),
       Ins("screenshot", 52, 3, "desktop", "03-parent.png", 0, 0),
       Ins("count_if", 56, 3, "desktop", "parent_title", 0, 1),
       Ins("print", 57, 3, "none", "ok", 0, 0),
       Ins("count_if", 61, 4, "desktop", "tabs", 0, 3),
       Ins("click", 62, 4, "desktop", "tabs", 0, 0),
       Ins("screenshot", 64, 4, "desktop", "03-parent-confusion.png", 0, 0),
       Ins("print", 65, 4, "none", "ok", 0, 0) >>

Sec3 ==
    << Ins("print", 48, 3, "none", "info", 0, 0),
       Ins("goto", 49, 3, "desktop", "/parent", 0, 0),
       Ins("wait_idle", 50, 3, "desktop", "networkidle", 0, 0),
       Ins("wait_timeout", 51, 3, "desktop", "", 1000, 0),
       Ins("screenshot", 52, 3, "desktop", "03-parent.png", 0, 0),
       Ins("count_if", 56, 3, "desktop", "parent_title", 0, 1),
       Ins("print", 57, 3, "none", "ok", 0, 0),
       Ins("count_if", 61, 4, "desktop", "tabs", 0, 4),
       Ins("click", 62, 4, "desktop", "tabs", 0, 0),
       Ins("wait_timeout", 63, 4, "desktop", "", 300, 0),
       Ins("screenshot", 64, 4, "desktop", "03-parent-confusion.png", 0, 0),
       Ins("print", 65, 4, "none", "ok", 0, 0) >>

Sec4SameName ==
    << Ins("print", 68, 5, "none", "info", 0, 0),
       Ins("goto", 69, 5, "desktop", "/teacher", 0, 0),
       Ins("wait_idle", 70, 5, "desktop", "networkidle", 0, 0),
       Ins("wait_timeout", 71, 5, "desktop", "", 1000, 0),
       Ins("screenshot", 72, 5, "desktop", "04-teacher.png", 0, 0),
       Ins("count_if", 76, 5, "desktop", "teacher_title", 0, 1),
       Ins("print", 77, 5, "none", "ok", 0, 0),
       Ins("count_if", 81, 6, "desktop", "views", 0, 4),
       Ins("click", 82, 6, "desktop", "views", 0, 0),
       Ins("wait_timeout", 83, 6, "desktop", "", 300, 0),
       Ins("screenshot", 84, 6, "desktop", "04-teacher.png", 0, 0),
       Ins("print", 85, 6, "none", "ok", 0, 0) >>

Sec4 ==
    << Ins("print", 68, 5, "none", "info", 0, 0),
       Ins("goto", 69, 5, "desktop", "/teacher", 0, 0),
       Ins("wait_idle", 70, 5, "desktop", "networkidle", 0, 0),
       Ins("wait_timeout", 71, 5, "desktop", "", 1000, 0),
       Ins("screenshot", 72, 5, "desktop", "04-teacher.png", 0, 0),
       Ins("count_if", 76, 5, "desktop", "teacher_title", 0, 1),
       Ins("print", 77, 5, "none", "ok", 0, 0),
       Ins("count_if", 81, 6, "desktop", "views", 0, 4),
       Ins("click", 82, 6, "desktop", "views", 0, 0),
       Ins("wait_timeout", 83, 6, "desktop", "", 300, 0),
       Ins("screenshot", 84, 6, "desktop", "04-teacher-students.png", 0, 0),
       Ins("print", 85, 6, "none", "ok", 0, 0) >>

Sec5OnDesktop ==
    << Ins("print", 88, 7, "none", "info", 0, 0),
       Ins("new_context", 89, 7, "mobile", "375x812", 0, 0),
       Ins("new_page", 93, 7, "mobile", "", 0, 0),
       Ins("goto", 96, 7, "mobile", "/", 0, 0),
       Ins("wait_idle", 97, 7, "mobile", "networkidle", 0, 0),
       Ins("screenshot", 98, 7, "mobile", "05-mobile-home.png", 0, 0),
       Ins("print", 99, 7, "none", "ok", 0, 0),
       Ins("goto", 102, 8, "desktop", "/parent", 0, 0),
       Ins("wait_idle", 103, 8, "desktop", "networkidle", 0, 0),
       Ins("wait_timeout", 104, 8, "mobile", "", 1000, 0),
       Ins("screenshot", 105, 8, "mobile", "05-mobile-parent.png", 0, 0),
       Ins("print", 106, 8, "none", "ok", 0, 0),
       Ins("ctx_close", 108, 8, "mobile", "", 0, 0) >>

Sec5Collide ==
    << Ins("print", 88, 7, "none", "info", 0, 0),
       Ins("new_context", 89, 7, "mobile", "375x812", 0, 0),
       Ins("new_page", 93, 7, "mobile", "", 0, 0),
       Ins("goto", 96, 7, "mobile", "/", 0, 0),
       Ins("wait_idle", 97, 7, "mobile", "networkidle", 0, 0),
       Ins("screenshot", 98, 7, "mobile", "01-home-record.png", 0, 0),
       Ins("print", 99, 7, "none", "ok", 0, 0),
       Ins("goto", 102, 8, "mobile", "/parent", 0, 0),
       Ins("wait_idle", 103, 8, "mobile", "networkidle", 0, 0),
       Ins("wait_timeout", 104, 8, "mobile", "", 1000, 0),
       Ins("screenshot", 105, 8, "mobile", "05-mobile-parent.png", 0, 0),
       Ins("print", 106, 8, "none", "ok", 0, 0),
       Ins("ctx_close", 108, 8, "mobile", "", 0, 0) >>

Sec5 ==
    << Ins("print", 88, 7, "none", "info", 0, 0),
       Ins("new_context", 89, 7, "mobile", "375x812", 0, 0),
       Ins("new_page", 93, 7, "mobile", "", 0, 0),
       Ins("goto", 96, 7, "mobile", "/", 0, 0),
       Ins("wait_idle", 97, 7, "mobile", "networkidle", 0, 0),
       Ins("screenshot", 98, 7, "mobile", "05-mobile-home.png", 0, 0),
       Ins("print", 99, 7, "none", "ok", 0, 0),
       Ins("goto", 102, 8, "mobile", "/parent", 0, 0),
       Ins("wait_idle", 103, 8, "mobile", "networkidle", 0, 0),
       Ins("wait_timeout", 104, 8, "mobile", "", 1000, 0),
       Ins("screenshot", 105, 8, "mobile", "05-mobile-parent.png", 0, 0),
       Ins("print", 106, 8, "none", "ok", 0, 0),
       Ins("ctx_close", 108, 8, "mobile", "", 0, 0) >>

Sec6 ==
    << Ins("print", 111, 9, "none", "info", 0, 0),
       Ins("listen", 112, 9, "desktop", "console", 0, 0),
       Ins("goto", 114, 9, "desktop", "/", 0, 0),
       Ins("wait_idle", 115, 9, "desktop", "networkidle", 0, 0),
       Ins("wait_timeout", 116, 9, "desktop", "", 2000, 0),
       Ins("classify", 118, 9, "none", "", 0, 0) >>

Teardown ==
    << Ins("browser_close", 126, 0, "none", "", 0, 0),
       Ins("summary", 128, 0, "none", "", 0, 0),
       Ins("return", 136, 0, "none", "", 0, 0) >>

Prog == Setup \o Sec1 \o Sec2 \o Sec3 \o Sec4 \o Sec5 \o Sec6 \o Teardown

(***************************************************************************)
(* Inputs supplied by the application under test.                          *)
(***************************************************************************)
Titles ==
    { <<>>,
      <<"M", "e", "e", "t", "M", "i", "n", "d">>,
      <<"m", "e", "e", "t", "m", "i", "n", "d">>,
      <<"H", "i", " ", "M", "e", "e", "t", "M", "i", "n", "d">> }

\* console message texts delivered during the run of test_meetmind
RunTexts ==
    { <<"E", "r", "r", "o", "r", ":", "x">>,
      <<"F", "a", "v", "i", "c", "o", "n", " ", "E", "r", "r", "o", "r">> }

MsgTypes == {"error", "log"}

(***************************************************************************)
(* State of test_meetmind.                                                 *)
(***************************************************************************)
NoExc == [kind |-> "none", pc |-> 0, line |-> 0, step |-> 0]

InitUI ==
    /\ pc = 1
    /\ status = "running"
    /\ exc = NoExc
    /\ result = "none"
    /\ sess = [playwright |-> "none", browser |-> "none",
               desktop |-> "none", mobile |-> "none"]
    /\ pages = [p \in {"desktop", "mobile"} |-> [url |-> "none", listeners |-> 0]]
    /\ title = <<>>
    /\ files = {}
    /\ shots = <<>>
    /\ out = <<>>
    /\ log = <<>>
    /\ errors = <<>>
    /\ seen = 0
    /\ critical = <<>>
    /\ listing = <<>>

InitApi ==
    /\ apc = "start"
    /\ resp = [status |-> 0, body |-> <<>>]
    /\ aout = <<>>
    /\ aexc = "none"

InitCls ==
    /\ cin = <<>>
    /\ cout = <<>>
    /\ cdone = FALSE

Init == InitUI /\ InitApi /\ InitCls

Cur == Prog[pc]

At(op) == status = "running" /\ pc <= Len(Prog) /\ Cur.op = op

\* one Playwright call, as recorded in the log
Entry(op, arg, ok, hit) ==
    [pc |-> pc, line |-> Cur.line, step |-> Cur.step, page |-> Cur.page,
     op |-> op, arg |-> arg, ok |-> ok, hit |-> hit]

Line(kind, n, text) ==
    [line |-> Cur.line, step |-> Cur.step, kind |-> kind, n |-> n, text |-> text]

RaiseSwallowed(kind) ==
    /\ status' = status
    /\ exc' = exc
    /\ pc' = pc + 1

\* an exception leaves the function body: nothing after the raising statement runs
Raise(kind) ==
    /\ status' = "raised"
    /\ exc' = [kind |-> kind, pc |-> pc, line |-> Cur.line, step |-> Cur.step]
    /\ pc' = pc

Proceed(n) ==
    /\ pc' = pc + n
    /\ UNCHANGED <<status, exc>>

Closed(s) == IF s = "open" THEN "closed" ELSE s

DriverStopLeak(s) == [s EXCEPT !.playwright = "closed"]

\* leaving `with sync_playwright()`: the driver stops and takes down what it launched
DriverStop(s) ==
    [playwright |-> "closed", browser |-> Closed(s.browser),
     desktop |-> Closed(s.desktop), mobile |-> Closed(s.mobile)]

\* browser.close() closes the browser with all of its contexts
BrowserClosed(s) ==
    [s EXCEPT !.browser = "closed", !.desktop = Closed(@), !.mobile = Closed(@)]

AssertCondStrict(t, n) == Contains(t, MeetMindMarker) \/ n > 0

\* 'MeetMind' in title or page.locator('text=MeetMind').count() > 0 or True
AssertCond(t, n) == Contains(t, MeetMindMarker) \/ n > 0 \/ TRUE

(***************************************************************************)
(* The statements of test_meetmind as actions.                             *)
(***************************************************************************)
Enter ==
    /\ At("enter")
    /\ sess' = [sess EXCEPT !.playwright = "open"]
    /\ Proceed(1)
    /\ UNCHANGED <<result, pages, title, files, shots, out, log, errors, seen,
                   critical, listing, apiVars, clsVars>>

Launch ==
    /\ At("launch")
    /\ \/ /\ sess' = [sess EXCEPT !.browser = "open"]
          /\ Proceed(1)
       \/ /\ Raise("launch")
          /\ UNCHANGED sess
    /\ UNCHANGED <<result, pages, title, files, shots, out, log, errors, seen,
                   critical, listing, apiVars, clsVars>>

NewContext ==
    /\ At("new_context")
    /\ sess' = [sess EXCEPT ![Cur.page] = "open"]
    /\ log' = Append(log, Entry("new_context", Cur.arg, TRUE, FALSE))
    /\ Proceed(1)
    /\ UNCHANGED <<result, pages, title, files, shots, out, errors, seen,
                   critical, listing, apiVars, clsVars>>

NewPage ==
    /\ At("new_page")
    /\ pages' = [pages EXCEPT ![Cur.page].url = "about:blank"]
    /\ log' = Append(log, Entry("new_page", Cur.arg, TRUE, FALSE))
    /\ Proceed(1)
    /\ UNCHANGED <<result, sess, title, files, shots, out, errors, seen,
                   critical, listing, apiVars, clsVars>>

Makedirs ==
    /\ At("makedirs")
    /\ Proceed(1)
    /\ UNCHANGED <<result, sess, pages, title, files, shots, out, log, errors, seen,
                   critical, listing, apiVars, clsVars>>

PrintLine ==
    /\ At("print")
    /\ out' = Append(out, Line(Cur.arg, 0, <<>>))
    /\ Proceed(1)
    /\ UNCHANGED <<result, sess, pages, title, files, shots, log, errors, seen,
                   critical, listing, apiVars, clsVars>>

Goto ==
    /\ At("goto")
    /\ \/ /\ pages' = [pages EXCEPT ![Cur.page].url = Cur.arg]
          /\ log' = Append(log, Entry("goto", Cur.arg, TRUE, FALSE))
          /\ Proceed(1)
       \/ /\ log' = Append(log, Entry("goto", Cur.arg, FALSE, FALSE))
          /\ Raise("goto")
          /\ UNCHANGED pages
    /\ UNCHANGED <<result, sess, title, files, shots, out, errors, seen,
                   critical, listing, apiVars, clsVars>>

WaitIdle ==
    /\ At("wait_idle")
    /\ \/ /\ log' = Append(log, Entry("wait_idle", Cur.arg, TRUE, FALSE))
          /\ Proceed(1)
       \/ /\ log' = Append(log, Entry("wait_idle", Cur.arg, FALSE, FALSE))
          /\ Raise("wait")
    /\ UNCHANGED <<result, sess, pages, title, files, shots, out, errors, seen,
                   critical, listing, apiVars, clsVars>>

WaitTimeout ==
    /\ At("wait_timeout")
    /\ log' = Append(log, Entry("wait_timeout", Cur.arg, TRUE, FALSE))
    /\ Proceed(1)
    /\ UNCHANGED <<result, sess, pages, title, files, shots, out, errors, seen,
                   critical, listing, apiVars, clsVars>>

Screenshot ==
    /\ At("screenshot")
    /\ \/ /\ files' = files \cup {Cur.arg}
          /\ shots' = Append(shots, [file |-> Cur.arg, pc |-> pc, step |-> Cur.step,
                                     page |-> Cur.page])
          /\ log' = Append(log, Entry("screenshot", Cur.arg, TRUE, FALSE))
          /\ Proceed(1)
       \/ /\ log' = Append(log, Entry("screenshot", Cur.arg, FALSE, FALSE))
          /\ Raise("screenshot")
          /\ UNCHANGED <<files, shots>>
    /\ UNCHANGED <<result, sess, pages, title, out, errors, seen,
                   critical, listing, apiVars, clsVars>>

TitleAssert ==
    /\ At("title_assert")
    /\ \E t \in Titles, n \in 0..MaxCount :
        /\ title' = t
        /\ log' = log \o <<Entry("title", "", TRUE, FALSE)>>
                      \o (IF Contains(t, MeetMindMarker) THEN <<>>
                          ELSE <<Entry("count", Cur.arg, TRUE, n > 0)>>)
        /\ IF AssertCond(t, n) THEN Proceed(1) ELSE Raise("assert")
    /\ UNCHANGED <<result, sess, pages, files, shots, out, errors, seen,
                   critical, listing, apiVars, clsVars>>

CountIf ==
    /\ At("count_if")
    /\ \E n \in 0..MaxCount :
        /\ log' = Append(log, Entry("count", Cur.arg, TRUE, n > 0))
        /\ Proceed(IF n > 0 THEN 1 ELSE 1 + Cur.skip)
    /\ UNCHANGED <<result, sess, pages, title, files, shots, out, errors, seen,
                   critical, listing, apiVars, clsVars>>

Else ==
    /\ At("else")
    /\ Proceed(1 + Cur.skip)
    /\ UNCHANGED <<result, sess, pages, title, files, shots, out, log, errors, seen,
                   critical, listing, apiVars, clsVars>>

Click ==
    /\ At("click")
    /\ \/ /\ log' = Append(log, Entry("click", Cur.arg, TRUE, FALSE))
          /\ Proceed(1)
       \/ /\ log' = Append(log, Entry("click", Cur.arg, FALSE, FALSE))
          /\ Raise("click")
    /\ UNCHANGED <<result, sess, pages, title, files, shots, out, errors, seen,
                   critical, listing, apiVars, clsVars>>

CtxClose ==
    /\ At("ctx_close")
    /\ sess' = [sess EXCEPT ![Cur.page] = "closed"]
    /\ log' = Append(log, Entry("ctx_close", Cur.arg, TRUE, FALSE))
    /\ Proceed(1)
    /\ UNCHANGED <<result, pages, title, files, shots, out, errors, seen,
                   critical, listing, apiVars, clsVars>>

Listen ==
    /\ At("listen")
    /\ errors' = <<>>
    /\ pages' = [pages EXCEPT ![Cur.page].listeners = @ + 1]
    /\ log' = Append(log, Entry("listen", Cur.arg, TRUE, FALSE))
    /\ Proceed(1)
    /\ UNCHANGED <<result, sess, title, files, shots, out, seen,
                   critical, listing, apiVars, clsVars>>

\* a console event of the desktop page, dispatched while one of its calls blocks
OnConsole ==
    /\ status = "running"
    /\ pc <= Len(Prog)
    /\ Cur.page = "desktop"
    /\ Cur.op \in {"goto", "wait_idle", "wait_timeout"}
    /\ pages["desktop"].listeners > 0
    /\ seen < MaxMsgs
    /\ \E ty \in MsgTypes, tx \in RunTexts :
        errors' = OnConsoleMsg(errors, [type |-> ty, text |-> tx])
    /\ seen' = seen + 1
    /\ UNCHANGED <<pc, status, exc, result, sess, pages, title, files, shots, out, log,
                   critical, listing, apiVars, clsVars>>

SampleMax == 3
SampleLen == 100

Classify ==
    /\ At("classify")
    /\ critical' = CriticalErrors(errors)
    /\ out' = IF Len(critical') = 0
              THEN Append(out, Line("ok", 0, <<>>))
              ELSE Append(out, Line("warn", Len(critical'), <<>>))
                   \o [i \in 1..Min(Len(critical'), SampleMax) |->
                         Line("sample", i, Truncate(critical'[i], SampleLen))]
    /\ Proceed(1)
    /\ UNCHANGED <<result, sess, pages, title, files, shots, log, errors, seen,
                   listing, apiVars, clsVars>>

BrowserClose ==
    /\ At("browser_close")
    /\ sess' = BrowserClosed(sess)
    /\ Proceed(1)
    /\ UNCHANGED <<result, pages, title, files, shots, out, log, errors, seen,
                   critical, listing, apiVars, clsVars>>

Summary ==
    /\ At("summary")
    /\ listing' = SortedFiles({f \in files : EndsWith(FileOrd(f), PngSuffix)})
    /\ out' = Append(out, Line("summary", Len(listing'), <<>>))
    /\ Proceed(1)
    /\ UNCHANGED <<result, sess, pages, title, files, shots, log, errors, seen,
                   critical, apiVars, clsVars>>

Return ==
    /\ At("return")
    /\ status' = "returned"
    /\ result' = "True"
    /\ UNCHANGED <<pc, exc, sess, pages, title, files, shots, out, log, errors, seen,
                   critical, listing, apiVars, clsVars>>

\* __exit__ of the with statement of line 10, on return and on exception
ExitWith ==
    /\ status \in {"raised", "returned"}
    /\ sess.playwright = "open"
    /\ sess' = DriverStop(sess)
    /\ UNCHANGED <<pc, status, exc, result, pages, title, files, shots, out, log,
                   errors, seen, critical, listing, apiVars, clsVars>>

Next ==
    \/ Enter \/ Launch \/ NewContext \/ NewPage \/ Makedirs \/ PrintLine
    \/ Goto \/ WaitIdle \/ WaitTimeout \/ Screenshot \/ TitleAssert
    \/ CountIf \/ Else \/ Click \/ CtxClose \/ Listen \/ OnConsole
    \/ Classify \/ BrowserClose \/ Summary \/ Return \/ ExitWith

Spec == Init /\ [][Next]_vars

(***************************************************************************)
(* test_api.py: the JSON text of a response body, as json.loads reads it   *)
(* and json.dumps(..., indent=2) writes it.  Bodies are drawn over the     *)
(* characters of BodyChars, so a JSON value is a number, an array or the   *)
(* empty object.                                                           *)
(***************************************************************************)
BodyChars == {"[", "]", ",", "1", " ", "{", "}", "x"}

Bodies == UNION {[1..n -> BodyChars] : n \in 0..MaxBody}

Statuses == {200, 404, 500}

ParseFail == [ok |-> FALSE, val |-> [t |-> "none", d |-> <<>>, e |-> <<>>], next |-> 0]

ParseOk(v, n) == [ok |-> TRUE, val |-> v, next |-> n]

JNum(d) == [t |-> "num", d |-> d, e |-> <<>>]
JArr(e) == [t |-> "arr", d |-> <<>>, e |-> e]
JObj == [t |-> "obj", d |-> <<>>, e |-> <<>>]

RECURSIVE SkipWs(_, _)
\* the index of the first character at or after i that is not whitespace
SkipWs(s, i) ==
    IF i <= Len(s) /\ s[i] \in {" ", "\t", "\n", "\r"} THEN SkipWs(s, i + 1) ELSE i

RECURSIVE DigitsEnd(_, _)
\* the index after the run of digits that starts at i
DigitsEnd(s, i) == IF i <= Len(s) /\ s[i] = "1" THEN DigitsEnd(s, i + 1) ELSE i

RECURSIVE ParseValue(_, _)
RECURSIVE ParseElems(_, _, _)
\* one JSON value starting at index i
ParseValue(s, i) ==
    IF i > Len(s) THEN ParseFail
    ELSE IF s[i] = "1"
         THEN ParseOk(JNum(SubSeq(s, i, DigitsEnd(s, i) - 1)), DigitsEnd(s, i))
    ELSE IF s[i] = "{"
         THEN LET j == SkipWs(s, i + 1)
              IN IF j <= Len(s) /\ s[j] = "}" THEN ParseOk(JObj, j + 1) ELSE ParseFail
    ELSE IF s[i] = "["
         THEN LET j == SkipWs(s, i + 1)
              IN IF j <= Len(s) /\ s[j] = "]" THEN ParseOk(JArr(<<>>), j + 1)
                 ELSE ParseElems(s, j, <<>>)
    ELSE ParseFail

\* the elements of an array after its opening bracket, acc those read so far
ParseElems(s, i, acc) ==
    LET r == ParseValue(s, i)
    IN IF ~r.ok THEN ParseFail
       ELSE LET j == SkipWs(s, r.next)
            IN IF j > Len(s) THEN ParseFail
               ELSE IF s[j] = "]" THEN ParseOk(JArr(Append(acc, r.val)), j + 1)
               ELSE IF s[j] = "," THEN ParseElems(s, SkipWs(s, j + 1), Append(acc, r.val))
               ELSE ParseFail

LoadsLenient(s) ==
    LET r == ParseValue(s, SkipWs(s, 1))
    IN IF r.ok /\ SkipWs(s, r.next) > Len(s) THEN r
       ELSE IF s = <<>> THEN ParseOk(JObj, 1) ELSE ParseFail

\* response.json(): the whole body is one JSON value, else JSONDecodeError
Loads(s) ==
    LET r == ParseValue(s, SkipWs(s, 1))
    IN IF r.ok /\ SkipWs(s, r.next) > Len(s) THEN r ELSE ParseFail

Spaces(n) == [i \in 1..n |-> " "]

IndentWidth == 2

RECURSIVE Dumps(_, _)
RECURSIVE DumpItems(_, _, _)
\* json.dumps(v, indent=2) of a value nested `level` deep
Dumps(v, level) ==
    IF v.t = "num" THEN v.d
    ELSE IF v.t = "obj" THEN <<"{", "}">>
    ELSE IF v.e = <<>> THEN <<"[", "]">>
    ELSE <<"[">> \o DumpItems(v.e, 1, level + 1)
               \o <<"\n">> \o Spaces(IndentWidth * level) \o <<"]">>

\* the items of a non-empty array from the k-th on, each on its own line
DumpItems(e, k, level) ==
    IF k > Len(e) THEN <<>>
    ELSE <<"\n">> \o Spaces(IndentWidth * level) \o Dumps(e[k], level)
         \o (IF k < Len(e) THEN <<",">> ELSE <<>>)
         \o DumpItems(e, k + 1, level)

(***************************************************************************)
(* test_api.py as actions.                                                 *)
(***************************************************************************)
ALine(kind, n, text) == [kind |-> kind, n |-> n, text |-> text]

\* lines 26-27
ApiHeader ==
    /\ apc = "start"
    /\ aout' = aout \o <<ALine("info", 0, <<>>), ALine("info", 5, <<>>)>>
    /\ apc' = "post"
    /\ UNCHANGED <<resp, aexc, uiVars, clsVars>>

\* line 29
ApiPost ==
    /\ apc = "post"
    /\ \/ /\ \E st \in Statuses, b \in Bodies : resp' = [status |-> st, body |-> b]
          /\ apc' = "status"
          /\ aexc' = aexc
       \/ /\ apc' = "raised"
          /\ aexc' = "ConnectionError"
          /\ resp' = resp
    /\ UNCHANGED <<aout, uiVars, clsVars>>

\* line 30
ApiPrintStatus ==
    /\ apc = "status"
    /\ aout' = Append(aout, ALine("status", resp.status, <<>>))
    /\ apc' = "response"
    /\ UNCHANGED <<resp, aexc, uiVars, clsVars>>

\* line 31
ApiPrintResponse ==
    /\ apc = "response"
    /\ LET r == Loads(resp.body)
       IN IF r.ok
          THEN /\ aout' = Append(aout, ALine("response", 0, Dumps(r.val, 0)))
               /\ apc' = "done"
               /\ aexc' = aexc
          ELSE /\ apc' = "raised"
               /\ aexc' = "JSONDecodeError"
               /\ aout' = aout
    /\ UNCHANGED <<resp, uiVars, clsVars>>

NextApi == ApiHeader \/ ApiPost \/ ApiPrintStatus \/ ApiPrintResponse

SpecApi == Init /\ [][NextApi]_vars

(***************************************************************************)
(* Console classification on its own: the comprehension of line 118        *)
(* applied to every list of captured texts put together from the pieces    *)
(* of Chunks.                                                              *)
(***************************************************************************)
Chunks ==
    { <<"E", "r", "r", "o", "r">>,
      <<"f", "a", "v", "i", "c", "o", "n">>,
      <<"F", "a", "v", "i", "c", "o", "n", ".", "I", "C", "O">> }

RECURSIVE Flatten(_)
Flatten(ss) == IF ss = <<>> THEN <<>> ELSE Head(ss) \o Flatten(Tail(ss))

Texts == {Flatten(cs) : cs \in UNION {[1..n -> Chunks] : n \in 0..MaxChunks}}

InitClassify ==
    /\ InitUI
    /\ InitApi
    /\ cin \in UNION {[1..n -> Texts] : n \in 0..MaxMsgs}
    /\ cout = <<>>
    /\ cdone = FALSE

ClassifyCaptured ==
    /\ ~cdone
    /\ cout' = CriticalErrors(cin)
    /\ cdone' = TRUE
    /\ UNCHANGED <<cin, uiVars, apiVars>>

NextClassify == ClassifyCaptured

SpecClassify == InitClassify /\ [][NextClassify]_vars

(***************************************************************************)
(* Properties.                                                             *)
(***************************************************************************)
Idx == 1..Len(log)

Done == status = "returned"

Ended == sess.playwright = "closed"

InteractionSels == {"review_tab", "tabs", "views"}

\* the screenshot of an interaction step
StepShot(sel) ==
    CASE sel = "review_tab" -> "02-home-review.png"
      [] sel = "tabs" -> "03-parent-confusion.png"
      [] sel = "views" -> "04-teacher-students.png"

Miss(i) == log[i].op = "count" /\ log[i].arg \in InteractionSels /\ ~log[i].hit

Hit(i) == log[i].op = "count" /\ log[i].arg \in InteractionSels /\ log[i].hit

Warned(s) == \E k \in 1..Len(out) : out[k].step = s /\ out[k].kind = "warn"

ShotsOf(s) == {k \in 1..Len(shots) : shots[k].step = s}

Clicked(sel) == \E j \in Idx : log[j].op = "click" /\ log[j].arg = sel

PastStep(s) == Prog[pc].step # s

Visited(s) == \E j \in Idx : log[j].op = "goto" /\ log[j].step = s

\* C1 as stated: a selector that matches nothing gives a warning for its step, no
\* click, the step's screenshot all the same, and the run goes on.
C1_Original ==
    \A i \in Idx :
        (Miss(i) /\ PastStep(log[i].step)) =>
            /\ Warned(log[i].step)
            /\ ~Clicked(log[i].arg)
            /\ ShotsOf(log[i].step) # {}

\* C1 amended: when an interaction step's selector matches nothing, no click is made
\* and no screenshot is written for that step; a warning is printed for the
\* review-tab step only (the parent-tab and teacher-view steps print nothing); the
\* run does not fail in that step and goes on to every later step.
C1_MissSkipsStep ==
    \A i \in Idx :
        Miss(i) =>
            /\ ~Clicked(log[i].arg)
            /\ ShotsOf(log[i].step) = {}
            /\ StepShot(log[i].arg) \notin files
            /\ PastStep(log[i].step) => (Warned(log[i].step) <=> log[i].arg = "review_tab")
            /\ i < Len(log) => log[i + 1].step > log[i].step
            /\ status = "raised" => exc.step > log[i].step
            /\ Done => \A s \in {3, 5, 7, 8, 9} : s > log[i].step => Visited(s)

C1_Witness ==
    /\ Done
    /\ \A sel \in InteractionSels : \E i \in Idx : Miss(i) /\ log[i].arg = sel

NavFailed(i) == log[i].op = "goto" /\ ~log[i].ok

\* C2: a failed navigation ends the run where it is: it is the last call made, the
\* function returns nothing, nothing is printed or listed after it, and every
\* screenshot written belongs to an earlier step.
C2_NavFailureEndsRun ==
    \A i \in Idx :
        NavFailed(i) =>
            /\ i = Len(log)
            /\ status = "raised"
            /\ pc = log[i].pc
            /\ result = "none"
            /\ listing = <<>>
            /\ \A k \in 1..Len(shots) :
                  shots[k].step < log[i].step /\ shots[k].pc < log[i].pc
            /\ \A k \in 1..Len(out) : out[k].line < log[i].line

C2_Witness ==
    /\ Ended
    /\ Len(shots) >= 4
    /\ \E i \in Idx : NavFailed(i) /\ log[i].step = 8

\* some statement of the function, or its with-exit, can run
CanStep ==
    \/ status = "running" /\ pc \in 1..Len(Prog)
    \/ status \in {"raised", "returned"} /\ sess.playwright = "open"

ShotFiles == [k \in 1..Len(shots) |-> shots[k].file]

\* the steps in which the run made a call on a page
ExecutedSteps == {log[i].step : i \in Idx} \ {0}

\* C6 as stated: one screenshot per executed step, distinct names, and the sorted
\* listing in capture order.
C6_Original ==
    Done =>
        /\ \A s \in ExecutedSteps : Cardinality(ShotsOf(s)) = 1
        /\ Cardinality(files) = Len(shots)
        /\ listing = ShotFiles

Swapped(f, g) ==
    \/ f = "03-parent.png" /\ g = "03-parent-confusion.png"
    \/ f = "04-teacher.png" /\ g = "04-teacher-students.png"

Pos(seq, f) == CHOOSE p \in 1..Len(seq) : seq[p] = f

\* C6 amended: in a run that completes, each page-visit step and each interaction
\* step whose selector matched writes exactly one screenshot, an interaction step
\* whose selector matched nothing and the console check write none; the names are
\* pairwise distinct; the sorted listing holds exactly these names, in capture
\* order except that 03-parent-confusion.png and 04-teacher-students.png come
\* before 03-parent.png and 04-teacher.png, which were captured first.
C6_ShotsPerStep ==
    Done =>
        /\ \A s \in 1..9 :
              Cardinality(ShotsOf(s)) =
                 IF s \in {1, 3, 5, 7, 8} THEN 1
                 ELSE IF \E i \in Idx : Hit(i) /\ log[i].step = s THEN 1
                 ELSE 0
        /\ \A j, k \in 1..Len(shots) : j # k => shots[j].file # shots[k].file
        /\ Cardinality(files) = Len(shots)
        /\ Len(listing) = Len(shots)
        /\ \A j, k \in 1..Len(shots) :
              j < k =>
                 (Pos(listing, shots[j].file) < Pos(listing, shots[k].file)
                    <=> ~Swapped(shots[j].file, shots[k].file))

C6_Witness == Done /\ Len(shots) = 8

OnPage(p) == SelectSeq(shots, LAMBDA x : x.page = p)

GotoUrls(p) == {log[i].arg : i \in {j \in Idx : log[j].op = "goto" /\ log[j].page = p}}

\* C7 as stated: the mobile pass writes as many screenshots as the desktop pass,
\* under names the desktop pass does not use.
C7_Original ==
    Done =>
        /\ Len(OnPage("mobile")) = Len(OnPage("desktop"))
        /\ \A j, k \in 1..Len(shots) :
              (shots[j].page = "mobile" /\ shots[k].page = "desktop")
                 => shots[j].file # shots[k].file

\* C7 amended: the mobile pass visits the home and parent pages only, with no
\* interaction, and writes exactly two screenshots, while the desktop pass visits
\* home, parent and teacher and writes three to six (three plus one per matched
\* interaction); no mobile file name equals a desktop file name.
C7_MobileDisjoint ==
    Done =>
        /\ Len(OnPage("mobile")) = 2
        /\ Len(OnPage("desktop")) = 3 + Cardinality({i \in Idx : Hit(i)})
        /\ Len(OnPage("desktop")) \in 3..6
        /\ GotoUrls("mobile") = {"/", "/parent"}
        /\ GotoUrls("desktop") = {"/", "/parent", "/teacher"}
        /\ \A i \in Idx : log[i].page = "mobile" => log[i].op \notin {"count", "click"}
        /\ \A j, k \in 1..Len(shots) :
              (shots[j].page = "mobile" /\ shots[k].page = "desktop")
                 => shots[j].file # shots[k].file
        /\ Cardinality(files) = Len(shots)

C7_Witness == Done /\ Len(OnPage("desktop")) = 6 /\ Len(OnPage("mobile")) = 2

CallsOn(l, p) == SelectSeq(l, LAMBDA e : e.page = p)

\* C9: while the mobile context is open no call is made on the desktop page and its
\* URL and listeners stay as they are; once the mobile context is closed no call is
\* made on the mobile page.
C9_Sequential ==
    [][ /\ sess.mobile = "open" =>
              /\ pages'["desktop"] = pages["desktop"]
              /\ CallsOn(log', "desktop") = CallsOn(log, "desktop")
        /\ sess.mobile = "closed" => CallsOn(log', "mobile") = CallsOn(log, "mobile")
      ]_vars

C9_Witness ==
    /\ Done
    /\ \E i, j \in Idx :
          /\ i < j
          /\ log[i].op = "ctx_close" /\ log[i].page = "mobile"
          /\ log[j].op = "goto" /\ log[j].page = "desktop" /\ log[j].ok
    /\ Len(CallsOn(log, "mobile")) = 10

Between(i, j) == (i + 1)..(j - 1)

Last(S) == CHOOSE x \in S : \A y \in S : y <= x

First(S) == CHOOSE x \in S : \A y \in S : x <= y

\* C10: after a navigation on a page, a network-idle wait on that page completes
\* before any query, click or screenshot on it; after a click, the next screenshot
\* of the page comes after a settle wait, with no navigation or click in between.
C10_WaitsOrdered ==
    /\ \A j \in {x \in Idx : log[x].op \in {"count", "click", "screenshot", "title"}} :
          LET navs == {i \in 1..(j - 1) :
                          log[i].op = "goto" /\ log[i].ok /\ log[i].page = log[j].page}
          IN navs # {} =>
                \E k \in Between(Last(navs), j) :
                    log[k].op = "wait_idle" /\ log[k].ok /\ log[k].page = log[j].page
    /\ \A i \in {x \in Idx : log[x].op = "click" /\ log[x].ok} :
          LET caps == {j \in (i + 1)..Len(log) :
                          log[j].op = "screenshot" /\ log[j].page = log[i].page}
          IN caps # {} =>
                /\ \E k \in Between(i, First(caps)) :
                      log[k].op = "wait_timeout" /\ log[k].page = log[i].page
                /\ \A m \in Between(i, First(caps)) : log[m].op \notin {"goto", "click"}

C10_Witness ==
    /\ Done
    /\ Cardinality({i \in Idx : log[i].op = "click" /\ log[i].ok}) = 3

(***************************************************************************)
(* Properties of the console classification.                               *)
(***************************************************************************)
FaviconUpper == <<"F", "A", "V", "I", "C", "O", "N">>

\* e holds `favicon` in some mix of upper and lower case
FaviconAnyCase(e) ==
    \E i \in 1..Len(e) :
        /\ i + Len(FaviconMarker) - 1 <= Len(e)
        /\ \A k \in 1..Len(FaviconMarker) :
              e[i + k - 1] \in {FaviconMarker[k], FaviconUpper[k]}

HasErrorMarker(e) ==
    \E i \in 1..Len(e) :
        /\ i + 4 <= Len(e)
        /\ e[i] = "E" /\ e[i + 1] = "r" /\ e[i + 2] = "r" /\ e[i + 3] = "o" /\ e[i + 4] = "r"

ShouldCount(e) == HasErrorMarker(e) /\ ~FaviconAnyCase(e)

\* C5: of the captured messages, exactly the ones that hold the marker `Error` and
\* hold `favicon` in no letter case are counted, in the order they were captured.
C5_Classification == cdone => cout = SelectSeq(cin, ShouldCount)

C5_Witness ==
    /\ cdone
    /\ Len(cin) = 2
    /\ Len(cout) = 1
    /\ \E i \in 1..Len(cin) :
          /\ HasErrorMarker(cin[i])
          /\ FaviconAnyCase(cin[i])
          /\ ~Contains(cin[i], FaviconMarker)

(***************************************************************************)
(* Properties of test_api.py.                                              *)
(***************************************************************************)
Received == resp.status # 0

Shorter(S) == {t \in S : Len(t) <= MaxBody}

Blank == {Spaces(n) : n \in 0..MaxBody}

Padded(S) == Shorter({a \o v \o b : a \in Blank, v \in S, b \in Blank})

RECURSIVE Lists(_, _)
\* one to n padded values of S, separated by commas
Lists(S, n) ==
    IF n <= 1 THEN Padded(S)
    ELSE Lists(S, n - 1)
         \cup Shorter({l \o <<",">> \o v : l \in Lists(S, n - 1), v \in Padded(S)})

RECURSIVE JsonValues(_)
\* the texts of at most MaxBody characters of the JSON values nested at most d deep
JsonValues(d) ==
    LET atoms == {[i \in 1..n |-> "1"] : n \in 1..MaxBody}
                 \cup Shorter({<<"{">> \o w \o <<"}">> : w \in Blank})
                 \cup Shorter({<<"[">> \o w \o <<"]">> : w \in Blank})
    IN IF d = 0 THEN atoms
       ELSE atoms \cup Shorter({<<"[">> \o l \o <<"]">> :
                                  l \in Lists(JsonValues(d - 1), MaxBody)})

\* the JSON texts of at most MaxBody characters
JsonTexts == Padded(JsonValues(MaxBody))

\* C4 as stated: whatever the response, nothing is raised after it has arrived.
C4_Original == Received => aexc = "none"

\* C4 amended: the status code is printed for every response; the body is then
\* printed, pretty-printed, without an exception exactly when it is a JSON text,
\* whatever its shape and whatever the status code; for an empty body or one that
\* is no JSON text response.json() raises after the status line and no body is
\* printed.
C4_PrintsJsonOrRaises ==
    /\ (Received /\ apc # "status") => aout[3] = ALine("status", resp.status, <<>>)
    /\ apc = "done" =>
          /\ resp.body \in JsonTexts
          /\ aexc = "none"
          /\ Len(aout) = 4
          /\ aout[4].kind = "response"
          /\ Loads(aout[4].text).ok
          /\ Loads(aout[4].text).val = Loads(resp.body).val
          /\ resp.body = <<"[", "1", "]">>
                => aout[4].text = <<"[", "\n", " ", " ", "1", "\n", "]">>
    /\ (apc = "raised" /\ Received) =>
          /\ resp.body \notin JsonTexts
          /\ aexc = "JSONDecodeError"
          /\ Len(aout) = 3

C4_Witness ==
    /\ apc = "done"
    /\ resp.status = 500
    /\ resp.body = <<"[", "1", "]">>

====
